---- MODULE Spec2Model ----
(***************************************************************************)
(* PageRank over a small closed corpus (pagerank.py): the transition       *)
(* model, the random-surfer sampling estimator and the iterative           *)
(* estimator.  Python floats are modelled as exact rationals, kept in      *)
(* lowest terms with a positive denominator, so that equal values are      *)
(* equal records.                                                          *)
(***************************************************************************)
EXTENDS Integers, Sequences, FiniteSets, TLC

VARIABLES corpus, damping_factor, pc, tm_page, distribution,
          n, i, start, page, visits, ranks, new_ranks, passes, returned

vars == <<corpus, damping_factor, pc, tm_page, distribution,
          n, i, start, page, visits, ranks, new_ranks, passes, returned>>

-----------------------------------------------------------------------------
(* Bounds of the model *)

\* the file names a directory may hold, in listing order
AllPages == <<"A", "B", "C">>

\* a link target that is not a file of the directory
Outside == "X"

\* no page: the value of tm_page before transition_model is called
NoPage == "-"

\* largest sample count n passed to sample_pagerank
MaxSamples == 3

\* passes of iterate_pagerank followed when the damping factor may be DAMPING
MaxPasses == 2

\* passes of iterate_pagerank followed in the runs to convergence
PassLimit == 10

-----------------------------------------------------------------------------
(* Exact rational arithmetic standing for Python's float arithmetic *)

RECURSIVE GCD(_, _)
GCD(a, b) == IF b = 0 THEN a ELSE GCD(b, a % b)

AbsInt(a) == IF a < 0 THEN -a ELSE a

\* the rational a/b (b # 0) in lowest terms, denominator positive
Rat(a, b) ==
    LET g == GCD(AbsInt(a), AbsInt(b))
        s == IF b < 0 THEN -1 ELSE 1
    IN  [num |-> s * (a \div g), den |-> s * (b \div g)]

Zero == Rat(0, 1)
One == Rat(1, 1)

\* In the operators below the arguments are bound over singleton sets, so
\* that each is evaluated once however deeply the expressions nest.

Add(x, y) ==
    CHOOSE z \in {LET g == GCD(a.den, b.den)
                  IN  Rat(a.num * (b.den \div g) + b.num * (a.den \div g),
                          (a.den \div g) * b.den) : a \in {x}, b \in {y}} : TRUE

Neg(x) == CHOOSE z \in {[num |-> -a.num, den |-> a.den] : a \in {x}} : TRUE

Sub(x, y) == Add(x, Neg(y))

Mul(x, y) ==
    CHOOSE z \in {LET g1 == GCD(AbsInt(a.num), b.den)
                      g2 == GCD(AbsInt(b.num), a.den)
                  IN  Rat((a.num \div g1) * (b.num \div g2),
                          (a.den \div g2) * (b.den \div g1)) :
                  a \in {x}, b \in {y}} : TRUE

\* x / k for an integer k > 0
Div(x, k) == Mul(x, Rat(1, k))

Abs(x) == CHOOSE z \in {[num |-> AbsInt(a.num), den |-> a.den] : a \in {x}} : TRUE

\* a/b < c/d for a, c >= 0 and b, d > 0, by integer parts and remainders
\* (no product of a numerator and a denominator is formed)
RECURSIVE LessPos(_, _, _, _)
LessPos(a, b, c, d) ==
    LET qa == a \div b
        qc == c \div d
        ra == a % b
        rc == c % d
    IN  IF qa # qc THEN qa < qc
        ELSE IF rc = 0 THEN FALSE
        ELSE IF ra = 0 THEN TRUE
        ELSE LessPos(d, rc, b, ra)

Less(x, y) ==
    \E a \in {x}, b \in {y} :
        IF a.num < 0
        THEN IF b.num >= 0 THEN TRUE
             ELSE LessPos(-b.num, b.den, -a.num, a.den)
        ELSE IF b.num < 0 THEN FALSE
             ELSE LessPos(a.num, a.den, b.num, b.den)

\* sum(f.values()) over the keys S of a table f of rationals
RECURSIVE SumRat(_, _)
SumRat(f, S) ==
    IF S = {} THEN Zero
    ELSE LET p == CHOOSE q \in S : TRUE
         IN  Add(f[p], SumRat(f, S \ {p}))

\* sum(f.values()) over the keys S of a table f of integers
RECURSIVE SumInt(_, _)
SumInt(f, S) ==
    IF S = {} THEN 0
    ELSE LET p == CHOOSE q \in S : TRUE
         IN  f[p] + SumInt(f, S \ {p})

\* the largest of a non-empty set of rationals
MaxRat(S) == CHOOSE x \in S : \A y \in S : ~Less(x, y)

-----------------------------------------------------------------------------
(* Program constants *)

DAMPING == Rat(17, 20)

\* the convergence threshold of iterate_pagerank and the tolerance of the
\* sum check of sample_pagerank: 0.001
Tolerance == Rat(1, 1000)

\* damping factors d in [0,1) on which the iteration is run to convergence
Dampings == {Zero, Rat(1, 4), Rat(1, 2)}

-----------------------------------------------------------------------------
(* crawl *)

\* the files of a directory holding the first k names
Files(k) == {AllPages[j] : j \in 1..k}

\* what the pattern match can find in a file: any set of link targets
Hrefs == Files(Len(AllPages)) \cup {Outside}

\* links[f] is set(links) of file f; the result keeps, for each file, the
\* links to other files of the directory
crawl(links) ==
    LET pages == [filename \in DOMAIN links |-> links[filename] \ {filename}]
    IN  [filename \in DOMAIN pages |->
            {link \in pages[filename] : link \in DOMAIN pages}]

Corpora ==
    {crawl(links) :
        links \in UNION {[Files(k) -> SUBSET Hrefs] : k \in 1..Len(AllPages)}}

\* list(corpus.keys())
Keys(c) == SubSeq(AllPages, 1, Cardinality(DOMAIN c))

-----------------------------------------------------------------------------
(* transition_model *)

\* faulty variant: the link share is d/N instead of d/LINKS_LEN
transition_model_ShareOverN(c, pg, d) ==
    LET links == c[pg]
        N == Cardinality(DOMAIN c)
        LINKS_LEN == Cardinality(links)
    IN  IF LINKS_LEN = 0
        THEN [q \in DOMAIN c |-> Rat(1, N)]
        ELSE [q \in DOMAIN c |->
                IF q \in links
                THEN Add(Div(Sub(One, d), N), Div(d, N))
                ELSE Div(Sub(One, d), N)]

\* faulty variant: a dangling page is damped, the surfer staying on it with
\* probability d
transition_model_DampedDangling(c, pg, d) ==
    LET links == IF c[pg] = {} THEN {pg} ELSE c[pg]
        N == Cardinality(DOMAIN c)
        LINKS_LEN == Cardinality(links)
    IN  [q \in DOMAIN c |->
            IF q \in links
            THEN Add(Div(Sub(One, d), N), Div(d, LINKS_LEN))
            ELSE Div(Sub(One, d), N)]

\* faulty variant: the current page is given a link share as well
transition_model_SelfShare(c, pg, d) ==
    LET links == c[pg]
        N == Cardinality(DOMAIN c)
        LINKS_LEN == Cardinality(links)
    IN  IF LINKS_LEN = 0
        THEN [q \in DOMAIN c |-> Rat(1, N)]
        ELSE [q \in DOMAIN c |->
                IF q \in links \/ q = pg
                THEN Add(Div(Sub(One, d), N), Div(d, LINKS_LEN))
                ELSE Div(Sub(One, d), N)]

\* the distribution over the next page, given the current page pg
transition_model(c, pg, d) ==
    LET links == c[pg]
        N == Cardinality(DOMAIN c)
        LINKS_LEN == Cardinality(links)
    IN  IF LINKS_LEN = 0
        THEN [q \in DOMAIN c |-> Rat(1, N)]
        ELSE [q \in DOMAIN c |->
                IF q \in links
                THEN Add(Div(Sub(One, d), N), Div(d, LINKS_LEN))
                ELSE Div(Sub(One, d), N)]

-----------------------------------------------------------------------------
(* sample_pagerank *)

\* the visit counters before the walk
InitVisits(c) == [q \in DOMAIN c |-> 0]

\* the pages random.choices can return for the weights dist
Drawable(dist) == {q \in DOMAIN dist : Less(Zero, dist[q])}

\* faulty variant: the step counts the page it leaves
CountVisit_Current(v, current, next_page) == [v EXCEPT ![current] = @ + 1]

\* one step of the walk counts the page drawn, not the page left
CountVisit(v, current, next_page) == [v EXCEPT ![next_page] = @ + 1]

\* faulty variant: the counts are divided by the number of pages
Normalize_ByPages(v, m) == [q \in DOMAIN v |-> Rat(v[q], Cardinality(DOMAIN v))]

\* counts to relative frequencies
Normalize(v, m) == [q \in DOMAIN v |-> Rat(v[q], m)]

\* the defensive check: abs(probability_sum - 1.0) > 0.001
SumCheckFails(v) ==
    LET probability_sum == SumRat(v, DOMAIN v)
    IN  Less(Tolerance, Abs(Sub(probability_sum, One)))

-----------------------------------------------------------------------------
(* iterate_pagerank *)

\* faulty variant: every page starts with rank 1
InitialRanks_One(c) == [q \in DOMAIN c |-> One]

\* the table before the first pass
InitialRanks(c) == [q \in DOMAIN c |-> Rat(1, Cardinality(DOMAIN c))]

\* faulty variant: the rank of a dangling page is dropped
Contribution_NoDangling(c, d, r, p, pg) ==
    IF p \in c[pg]
    THEN Div(Mul(d, r[pg]), Cardinality(c[pg]))
    ELSE Zero

\* faulty variant: a dangling page gives nothing to itself
Contribution_NotSelf(c, d, r, p, pg) ==
    IF p \in c[pg]
    THEN Div(Mul(d, r[pg]), Cardinality(c[pg]))
    ELSE IF Cardinality(c[pg]) = 0 /\ pg # p
         THEN Div(Mul(d, r[pg]), Cardinality(DOMAIN c))
         ELSE Zero

\* what the page pg adds to the new rank of page p in the inner loop
Contribution(c, d, r, p, pg) ==
    IF p \in c[pg]
    THEN Div(Mul(d, r[pg]), Cardinality(c[pg]))
    ELSE IF Cardinality(c[pg]) = 0
         THEN Div(Mul(d, r[pg]), Cardinality(DOMAIN c))
         ELSE Zero

\* the inner loop over corpus.keys() from position k on, acc being
\* new_ranks[p] so far
RECURSIVE InnerLoop(_, _, _, _, _, _)
InnerLoop(c, d, r, p, k, acc) ==
    IF k > Len(Keys(c)) THEN acc
    ELSE InnerLoop(c, d, r, p, k + 1,
                   Add(acc, Contribution(c, d, r, p, Keys(c)[k])))

\* one pass: every new rank is computed from the table r of the last pass
NewRanks(c, d, r) ==
    [p \in DOMAIN c |->
        InnerLoop(c, d, r, p, 1, Div(Sub(One, d), Cardinality(DOMAIN c)))]

\* the test that ends the loop
Converged(c, r, nr) ==
    Less(MaxRat({Abs(Sub(nr[p], r[p])) : p \in DOMAIN c}), Tolerance)

\* faulty variant: ranks = new_ranks is missing
AfterPass_Keep(r, nr, stop) == r

\* faulty variant: ranks = new_ranks comes before the test
AfterPass_Adopt(r, nr, stop) == nr

\* the table held after the test: break leaves ranks as it was, otherwise
\* ranks = new_ranks
AfterPass(r, nr, stop) == IF stop THEN r ELSE nr

-----------------------------------------------------------------------------
(* The state machine *)

ZeroTable(c) == [q \in DOMAIN c |-> Zero]

InitWith(ds) ==
    /\ corpus \in Corpora
    /\ damping_factor \in ds
    /\ pc = "main"
    /\ tm_page = NoPage
    /\ distribution = ZeroTable(corpus)
    /\ n = 0
    /\ i = 0
    /\ start = NoPage
    /\ page = NoPage
    /\ visits = InitVisits(corpus)
    /\ ranks = ZeroTable(corpus)
    /\ new_ranks = ZeroTable(corpus)
    /\ passes = 0
    /\ returned = ZeroTable(corpus)

Init == InitWith(Dampings \cup {DAMPING})

InitRun == InitWith(Dampings)

\* a call of transition_model for some page of the corpus
CallTransitionModel ==
    /\ pc = "main"
    /\ \E pg \in DOMAIN corpus :
          /\ tm_page' = pg
          /\ distribution' = transition_model(corpus, pg, damping_factor)
    /\ pc' = "transition_model"
    /\ UNCHANGED <<corpus, damping_factor, n, i, start, page, visits,
                   ranks, new_ranks, passes, returned>>

\* sample_pagerank up to the loop: counters at zero, a random start page
SampleStart ==
    /\ pc = "main"
    /\ \E m \in 1..MaxSamples, rand \in 0..(Cardinality(DOMAIN corpus) - 1) :
          /\ n' = m
          /\ start' = Keys(corpus)[rand + 1]
          /\ page' = Keys(corpus)[rand + 1]
    /\ visits' = InitVisits(corpus)
    /\ i' = 0
    /\ pc' = "sample_pagerank"
    /\ UNCHANGED <<corpus, damping_factor, tm_page, distribution,
                   ranks, new_ranks, passes, returned>>

\* one iteration of the sampling loop
SampleStep ==
    /\ pc = "sample_pagerank"
    /\ i < n
    /\ LET probability_dict == transition_model(corpus, page, damping_factor)
       IN  \E next_page \in Drawable(probability_dict) :
              /\ visits' = CountVisit(visits, page, next_page)
              /\ page' = next_page
    /\ i' = i + 1
    /\ UNCHANGED <<corpus, damping_factor, pc, tm_page, distribution,
                   n, start, ranks, new_ranks, passes, returned>>

\* after the loop: normalise, check the sum, return or raise
SampleFinish ==
    /\ pc = "sample_pagerank"
    /\ i = n
    /\ LET frequencies == Normalize(visits, n)
       IN  IF SumCheckFails(frequencies)
           THEN /\ pc' = "ValueError"
                /\ UNCHANGED returned
           ELSE /\ pc' = "sampled"
                /\ returned' = frequencies
    /\ UNCHANGED <<corpus, damping_factor, tm_page, distribution,
                   n, i, start, page, visits, ranks, new_ranks, passes>>

\* iterate_pagerank up to the loop
IterateStart ==
    /\ pc = "main"
    /\ ranks' = InitialRanks(corpus)
    /\ passes' = 0
    /\ pc' = "iterate_pagerank"
    /\ UNCHANGED <<corpus, damping_factor, tm_page, distribution,
                   n, i, start, page, visits, new_ranks, returned>>

\* one pass of the loop, the test and the return included
IteratePass(limit) ==
    /\ pc = "iterate_pagerank"
    /\ passes < limit
    /\ new_ranks' = NewRanks(corpus, damping_factor, ranks)
    /\ passes' = passes + 1
    /\ LET stop == Converged(corpus, ranks, new_ranks')
       IN  /\ ranks' = AfterPass(ranks, new_ranks', stop)
           /\ IF stop
              THEN /\ pc' = "iterated"
                   /\ returned' = ranks'
              ELSE /\ pc' = "iterate_pagerank"
                   /\ UNCHANGED returned
    /\ UNCHANGED <<corpus, damping_factor, tm_page, distribution,
                   n, i, start, page, visits>>

Next ==
    \/ CallTransitionModel
    \/ SampleStart
    \/ SampleStep
    \/ SampleFinish
    \/ IterateStart
    \/ IteratePass(MaxPasses)

Spec == Init /\ [][Next]_vars

\* the runs to convergence: the loop has no suspension point, so a pass that
\* can be taken is taken
NextRun ==
    \/ CallTransitionModel
    \/ SampleStart
    \/ SampleStep
    \/ SampleFinish
    \/ IterateStart
    \/ IteratePass(PassLimit)

SpecRun == InitRun /\ [][NextRun]_vars /\ WF_vars(IteratePass(PassLimit))

-----------------------------------------------------------------------------
(* Properties *)

N == Cardinality(DOMAIN corpus)

\* (1 - d)/N, the share of the uniform random jump
Base == Mul(Rat(damping_factor.den - damping_factor.num, damping_factor.den),
            Rat(1, N))

\* C1: the distribution transition_model returns has one entry per page of
\* the corpus, no entry is negative, and the entries sum to 1
C1_DistributionSumsToOne ==
    tm_page # NoPage =>
        /\ DOMAIN distribution = DOMAIN corpus
        /\ \A q \in DOMAIN corpus : ~Less(distribution[q], Zero)
        /\ SumRat(distribution, DOMAIN distribution) = One

C1_Witness ==
    /\ tm_page # NoPage
    /\ N = 3
    /\ Cardinality(corpus[tm_page]) = 1
    /\ damping_factor = DAMPING

\* C2: for a page without links transition_model gives 1/N to every page,
\* the page itself included, whatever the damping factor
C2_DanglingUniform ==
    (tm_page # NoPage /\ corpus[tm_page] = {}) =>
        /\ \A q \in DOMAIN corpus : distribution[q] = Rat(1, N)
        /\ \A d \in Dampings \cup {DAMPING} :
              transition_model(corpus, tm_page, d) = distribution

C2_Witness ==
    /\ tm_page # NoPage
    /\ corpus[tm_page] = {}
    /\ N = 3
    /\ damping_factor = DAMPING
    /\ distribution[tm_page] = Rat(1, 3)

\* C3: for a page with L > 0 links transition_model gives (1-d)/N + d/L to
\* each of its links and (1-d)/N to every other page, the page itself
\* included
C3_LinkedShares ==
    (tm_page # NoPage /\ corpus[tm_page] # {}) =>
        LET L == Cardinality(corpus[tm_page])
        IN  \A q \in DOMAIN corpus :
               distribution[q] =
                  IF q \in corpus[tm_page]
                  THEN Add(Base, Mul(damping_factor, Rat(1, L)))
                  ELSE Base

C3_Witness ==
    /\ tm_page # NoPage
    /\ N = 3
    /\ Cardinality(corpus[tm_page]) = 2
    /\ damping_factor = DAMPING
    /\ distribution[tm_page] = Rat(1, 20)

\* C4: sample_pagerank never raises ValueError: the counters sum to the
\* number of draws made, to n after the loop, and the table returned sums
\* to 1 within 0.001
C4_SampleSumsToOne ==
    /\ pc # "ValueError"
    /\ pc = "sample_pagerank" => SumInt(visits, DOMAIN visits) = i
    /\ pc = "sampled" =>
          /\ SumInt(visits, DOMAIN visits) = n
          /\ ~Less(Tolerance, Abs(Sub(SumRat(returned, DOMAIN returned), One)))

C4_Witness ==
    /\ pc = "sampled"
    /\ n = MaxSamples
    /\ N = 3
    /\ Cardinality({q \in DOMAIN visits : visits[q] > 0}) > 1

\* C5: with n = 1 the table returned has rank 1 for the page drawn in the
\* single step and rank 0 for every other page, the start page included
C5_SingleSample ==
    (pc = "sampled" /\ n = 1) =>
        /\ returned = [q \in DOMAIN corpus |-> IF q = page THEN One ELSE Zero]
        /\ Cardinality({q \in DOMAIN corpus : returned[q] = One}) = 1

C5_Witness ==
    /\ pc = "sampled"
    /\ n = 1
    /\ page # start
    /\ returned[page] = One
    /\ returned[start] = Zero

\* C6: the table of iterate_pagerank sums to 1 after initialisation and
\* after every pass, and so does the table returned
C6_RanksSumToOne ==
    pc \in {"iterate_pagerank", "iterated"} =>
        /\ SumRat(ranks, DOMAIN ranks) = One
        /\ passes > 0 => SumRat(new_ranks, DOMAIN new_ranks) = One
        /\ pc = "iterated" => SumRat(returned, DOMAIN returned) = One

C6_Witness ==
    /\ pc = "iterated"
    /\ passes >= 3
    /\ \E q \in DOMAIN corpus : corpus[q] = {}
    /\ \E q \in DOMAIN corpus : Cardinality(corpus[q]) = 2

\* C7: iterate_pagerank terminates: a pass whose largest change is below
\* 0.001 is reached and the function returns
C7_IterateTerminates == (pc = "iterate_pagerank") ~> (pc = "iterated")

C7_Witness ==
    /\ pc = "iterated"
    /\ passes >= 8

\* the recurrence for page p over the table r:
\* (1-d)/N + d * sum of r[i]/outdegree(i) over the pages i linking to p
\*         + d * sum of r[j]/N over the dangling pages j
Recurrence(r, p) ==
    LET linking == {q \in DOMAIN corpus : p \in corpus[q]}
        dangling == {q \in DOMAIN corpus : corpus[q] = {}}
        fromLinks == [q \in linking |-> Mul(r[q], Rat(1, Cardinality(corpus[q])))]
        fromDangling == [q \in dangling |-> Mul(r[q], Rat(1, N))]
    IN  Add(Base,
            Add(Mul(damping_factor, SumRat(fromLinks, linking)),
                Mul(damping_factor, SumRat(fromDangling, dangling))))

\* C8: in every pass the new rank of every page is the recurrence over the
\* table of the previous pass; a dangling page gives d*rank/N to every page,
\* itself included
C8_PassIsRecurrence ==
    [][pc = "iterate_pagerank" =>
          \A p \in DOMAIN corpus : new_ranks'[p] = Recurrence(ranks, p)]_vars

\* the corpus {A: {B}, B: {}, C: {A}}
DanglingScenario == [q \in {"A", "B", "C"} |->
                        IF q = "A" THEN {"B"} ELSE IF q = "C" THEN {"A"} ELSE {}]

C8_Witness ==
    /\ corpus = DanglingScenario
    /\ damping_factor = Rat(1, 2)
    /\ pc = "iterate_pagerank"
    /\ passes = 1
    /\ new_ranks["A"] = Rat(7, 18)
    /\ new_ranks["B"] = Rat(7, 18)
    /\ new_ranks["C"] = Rat(2, 9)

Uniform == [q \in DOMAIN corpus |-> Rat(1, N)]

UniformIsFixedPoint == \A p \in DOMAIN corpus : Recurrence(Uniform, p) = Uniform[p]

\* the corpus {A: {B}, B: {A}}
MutualScenario == [q \in {"A", "B"} |-> {"A", "B"} \ {q}]

\* the corpus {A: {}, B: {}}
TwoDanglingScenario == [q \in {"A", "B"} |-> {}]

Half == [q \in {"A", "B"} |-> Rat(1, 2)]

\* C9: when the uniform table is a fixed point of the recurrence,
\* iterate_pagerank stops at its first pass and returns 1/N for every page;
\* so it does for {A: {B}, B: {A}} with d = 0.85 and for {A: {}, B: {}}
C9_UniformFixedPoint ==
    /\ UniformIsFixedPoint =>
          /\ pc = "iterate_pagerank" => passes = 0
          /\ pc = "iterated" => passes = 1 /\ returned = Uniform
    /\ (pc = "iterated" /\ corpus = MutualScenario /\ damping_factor = DAMPING)
          => passes = 1 /\ returned = Half
    /\ (pc = "iterated" /\ corpus = TwoDanglingScenario)
          => passes = 1 /\ returned = Half

C9_Witness ==
    /\ pc = "iterated"
    /\ corpus = MutualScenario
    /\ damping_factor = DAMPING
    /\ passes = 1
    /\ returned = Half

\* every page changes by less than 0.001 from the table old to the table new
AllBelowTolerance(old, new) ==
    \A p \in DOMAIN old : Less(Abs(Sub(new[p], old[p])), Tolerance)

\* C10, as claimed: the loop stops at the first pass whose changes are all
\* below 0.001 and returns the table that pass computed; on any other pass
\* the new table becomes the basis of the next pass
C10_ReturnsNewTable ==
    [][pc = "iterate_pagerank" =>
          IF AllBelowTolerance(ranks, new_ranks')
          THEN pc' = "iterated" /\ returned' = new_ranks'
          ELSE pc' = "iterate_pagerank" /\ ranks' = new_ranks']_vars

\* C10, amended: the loop stops at the first pass whose changes are all
\* below 0.001 and returns the table that pass started from; on any other
\* pass the new table becomes the basis of the next pass
C10_ReturnsOldTable ==
    [][pc = "iterate_pagerank" =>
          IF AllBelowTolerance(ranks, new_ranks')
          THEN pc' = "iterated" /\ ranks' = ranks /\ returned' = ranks
          ELSE pc' = "iterate_pagerank" /\ ranks' = new_ranks']_vars

C10_Witness ==
    /\ pc = "iterated"
    /\ passes >= 2
    /\ returned # new_ranks
    /\ AllBelowTolerance(returned, new_ranks)

====
